---- MODULE Spec2Model ----
(***************************************************************************)
(* Background job lifecycle of the auto-vlog backend:                      *)
(*   - the submitter      app/api/routes/auto_vlog.py  generate_auto_vlog  *)
(*   - the launcher       app/api/routes/auto_vlog.py  start_subprocess_.. *)
(*   - the readers        app/api/routes/auto_vlog.py  get_job_status,     *)
(*                                                      get_job_result     *)
(*   - the worker         app/workers/video_worker.py  main,               *)
(*                                                      update_job_status  *)
(* Python dicts are functions from key strings to value strings; a key     *)
(* that is absent from the dict is absent from the DOMAIN, and the Python  *)
(* value None is the string "None" (which is also how an f-string prints   *)
(* it).  The filesystem is a map from path strings to file contents.       *)
(***************************************************************************)
EXTENDS Integers, Sequences, FiniteSets, TLC

VARIABLES
    jobs,     \* auto_vlog.py:29   the in-memory tracker: job id -> dict
    fs,       \* the files under /tmp: path -> [kind, data]
    tmpdir,   \* job id -> state of the worker's mkdtemp directory
    worker,   \* job id -> the worker process: position and locals
    resp,     \* the last HTTP response produced by a route
    faults,   \* environment faults (I/O errors) injected so far
    voice_system,  \* voice_clone.py:27   the global voice system instance
    voice_log,     \* what each get_voice_system call so far has done
    items,         \* item_service.py:16  ItemService.items
    next_id,       \* item_service.py:36  ItemService.next_id
    item_ret       \* what the last ItemService call returned

\* the state of the job lifecycle, of the voice routes and of the item service
jobVars == <<jobs, fs, tmpdir, worker, resp, faults>>
voiceVars == <<voice_system, voice_log>>
itemVars == <<items, next_id, item_ret>>
\* what no step of the job lifecycle touches
others == <<voiceVars, itemVars>>

vars == <<jobVars, voiceVars, itemVars>>

(***************************************************************************)
(* Bounds of the model                                                     *)
(***************************************************************************)
MaxFaults == 2        \* I/O faults the environment may inject in one run
MaxBadIndex == 1      \* largest index an undecodable image may sit at

(***************************************************************************)
(* Program constants                                                       *)
(***************************************************************************)
MAX_IMAGES == 20      \* auto_vlog.py:109

None == "None"
Uuids == {"a", "b"}                   \* job ids a client may ask about
\* strings of the shape str(uuid.uuid4()) has: one length, no underscore
UuidSamples == {h \o "-4" \o k : h \in {"0a", "f3"}, k \in {"0a", "f3"}}
JobIds == {"a"}                       \* values uuid.uuid4() returns
SubmitTimes == {"t1"}                 \* time.time() read by the submitter
WorkerTimes == {"t2"}                 \* time.time() read by the worker
ImageCounts == {0, 1, MAX_IMAGES, MAX_IMAGES + 1}
GenErrors == {"", "render failed"}    \* str(e) of what generate_vlog raises

(***************************************************************************)
(* Python dicts                                                            *)
(***************************************************************************)
EmptyDict == [k \in {} |-> None]

\* dict.update(e)
DictUpdate(d, e) ==
    [k \in (DOMAIN d) \cup (DOMAIN e) |-> IF k \in DOMAIN e THEN e[k] ELSE d[k]]

\* dict.get(k, default)
Get(d, k, default) == IF k \in DOMAIN d THEN d[k] ELSE default

\* Python truthiness of a str-or-None value
Truthy(v) == v # None /\ v # ""

(***************************************************************************)
(* The filesystem                                                          *)
(***************************************************************************)
\* StatusPath that names one status file for every job.
StatusPathShared(id) == "/tmp/job_status.json"

\* auto_vlog.py:126, 171, 208 and video_worker.py:22-23
StatusPath(id) == "/tmp/job_" \o id \o ".json"

\* auto_vlog.py:50-51
ImagesPath(id) == "/tmp/job_" \o id \o "_images.json"

\* video_worker.py:79   tempfile.mkdtemp adds a suffix that makes the name unique
TempDir(id) == "/tmp/autovlog_" \o id \o "_x"

Paths == {StatusPath(id) : id \in Uuids} \cup {ImagesPath(id) : id \in Uuids}

Absent == [kind |-> "absent", data |-> EmptyDict]   \* no such file
Partial == [kind |-> "partial", data |-> EmptyDict] \* truncated or half written: json.load raises
Json(d) == [kind |-> "json", data |-> d]            \* a complete JSON document

\* open(path, 'w'); json.dump(d, f)
WriteFile(files, path, d) == [files EXCEPT ![path] = Json(d)]

\* open(path, 'w') alone: the file is truncated
TruncateFile(files, path) == [files EXCEPT ![path] = Partial]

\* Path.unlink()
UnlinkFile(files, path) == [files EXCEPT ![path] = Absent]

(***************************************************************************)
(* The submitter: generate_auto_vlog and start_subprocess_worker           *)
(***************************************************************************)
\* A request body: n images, of which the one at index bad (from 1) is not
\* valid base64; bad = 0 when every image decodes.
Images(n, bad) == [n |-> n, bad |-> bad]
NoImages == Images(0, 0)

\* ValidateImages with the size cap off by one: 20 images are turned away.
ValidateImagesOffByOne(n) ==
    IF n = 0 THEN "At least one image is required"
    ELSE IF n >= MAX_IMAGES THEN "Maximum 20 images allowed"
    ELSE "accepted"

\* auto_vlog.py:106-110   "accepted", or the detail of the 400 answer
ValidateImages(n) ==
    IF n = 0 THEN "At least one image is required"
    ELSE IF n > MAX_IMAGES THEN "Maximum 20 images allowed"
    ELSE "accepted"

\* InitialJob that records the job as already being processed.
InitialJobProcessing(t) ==
    [status |-> "processing",
     message |-> "Job queued for processing",
     created_at |-> t,
     video_url |-> None,
     cloudinary_public_id |-> None,
     error |-> None]

\* auto_vlog.py:116-123
InitialJob(t) ==
    [status |-> "queued",
     message |-> "Job queued for processing",
     created_at |-> t,
     video_url |-> None,
     cloudinary_public_id |-> None,
     error |-> None]

Response(op, id, code, body) == [op |-> op, job |-> id, code |-> code, body |-> body]

\* video_worker.py:52-66   locals of a worker process; pc "none": no process
NoWorker ==
    [pc |-> "none", mid |-> FALSE, temp_dir |-> FALSE, images |-> NoImages,
     result |-> EmptyDict, exc |-> None, job_data |-> EmptyDict, log |-> {}]

\* auto_vlog.py:70-75   the process starts at the top of main's try block
LaunchedWorker == [NoWorker EXCEPT !.pc = "u_loading"]

\* What can go wrong between minting the job id and answering 202.
LaunchOutcomes == {"ok", "file_fail", "no_script", "stage_fail", "popen_fail"}

\* auto_vlog.py:36-86   the files after start_subprocess_worker, by outcome:
\* the images file is written at 52-53, before Popen at 70
StageImages(files, id, images, out) ==
    IF out \in {"ok", "popen_fail"} THEN WriteFile(files, ImagesPath(id), images)
    ELSE files

\* SubmitResponse that answers 202 with the job id whatever
\* start_subprocess_worker returned.
SubmitResponseIgnoresLaunch(id, out) ==
    IF out = "file_fail"
    THEN Response("submit", None, 500,
            [detail |-> "Failed to start video generation: I/O error"])
    ELSE Response("submit", id, 202,
            [job_id |-> id, status |-> "queued",
             message |-> "Video generation started in background."])

\* auto_vlog.py:136-154   the answer to a submission that passed validation
SubmitResponse(id, out) ==
    IF out = "ok"
    THEN Response("submit", id, 202,
            [job_id |-> id, status |-> "queued",
             message |-> "Video generation started in background."])
    ELSE IF out = "file_fail"
    THEN Response("submit", None, 500,
            [detail |-> "Failed to start video generation: I/O error"])
    ELSE Response("submit", None, 500,
            [detail |-> "Failed to start video generation worker"])

\* create_job that starts the worker first and writes the job file afterwards.
create_job_LaunchFirst(id, n, bad, t, out) ==
    /\ out # "ok" => faults < MaxFaults
    /\ faults' = IF out = "ok" THEN faults ELSE faults + 1
    /\ jobs' = [k \in (DOMAIN jobs) \cup {id} |->
                   IF k = id THEN InitialJob(t) ELSE jobs[k]]
    /\ fs' = IF out = "file_fail" THEN StageImages(fs, id, Images(n, bad), "ok")
             ELSE StageImages(WriteFile(fs, StatusPath(id), InitialJob(t)),
                              id, Images(n, bad), out)
    /\ worker' = IF out \in {"ok", "file_fail"}
                 THEN [worker EXCEPT ![id] = LaunchedWorker]
                 ELSE worker
    /\ resp' = SubmitResponse(id, out)
    /\ UNCHANGED <<tmpdir, others>>

\* auto_vlog.py:112-154   generate_auto_vlog once uuid4 has returned id
create_job(id, n, bad, t, out) ==
    /\ out # "ok" => faults < MaxFaults
    /\ faults' = IF out = "ok" THEN faults ELSE faults + 1
    \* 116-123
    /\ jobs' = [k \in (DOMAIN jobs) \cup {id} |->
                   IF k = id THEN InitialJob(t) ELSE jobs[k]]
    \* 126-128, then 134
    /\ fs' = IF out = "file_fail" THEN fs
             ELSE StageImages(WriteFile(fs, StatusPath(id), InitialJob(t)),
                              id, Images(n, bad), out)
    /\ worker' = IF out = "ok" THEN [worker EXCEPT ![id] = LaunchedWorker]
                 ELSE worker
    /\ resp' = SubmitResponse(id, out)
    /\ UNCHANGED <<tmpdir, others>>

\* auto_vlog.py:104-154
generate_auto_vlog(n, bad, t, out) ==
    IF ValidateImages(n) # "accepted"
    THEN /\ out = "ok"
         /\ resp' = Response("submit", None, 400, [detail |-> ValidateImages(n)])
         /\ UNCHANGED <<jobs, fs, tmpdir, worker, faults, others>>
    ELSE \E id \in JobIds \ DOMAIN jobs : create_job(id, n, bad, t, out)

(***************************************************************************)
(* The readers: get_job_status and get_job_result                          *)
(***************************************************************************)
\* auto_vlog.py:173-182 and 210-216   merge the file into the in-memory entry;
\* a file that is missing or does not parse leaves the entry as it was
RefreshFromFile(job, file) ==
    IF file.kind = "json" THEN DictUpdate(job, file.data) ELSE job

\* auto_vlog.py:184-193
StatusResponse(id, job) ==
    Response("status", id, 200,
        [job_id |-> id,
         status |-> job["status"],
         message |-> Get(job, "message", ""),
         created_at |-> Get(job, "created_at", None),
         completed_at |-> Get(job, "completed_at", None),
         error |-> Get(job, "error", None)])

\* ResultResponse without the not-ready check: every job that has not failed
\* is answered with whatever the record holds.
ResultResponseNoReadyCheck(id, job) ==
    IF job["status"] = "failed"
    THEN Response("result", id, 500,
            [detail |-> "Job failed: " \o Get(job, "error", "Unknown error")])
    ELSE Response("result", id, 200,
            [job_id |-> id,
             video_url |-> Get(job, "video_url", None),
             cloudinary_public_id |-> Get(job, "cloudinary_public_id", None),
             completed_at |-> Get(job, "completed_at", None),
             message |-> "Video available on Cloudinary CDN"])

\* ResultResponse that looks for the video URL before it looks at the status.
ResultResponseUrlFirst(id, job) ==
    IF Truthy(Get(job, "video_url", None))
    THEN Response("result", id, 200,
            [job_id |-> id,
             video_url |-> Get(job, "video_url", None),
             cloudinary_public_id |-> Get(job, "cloudinary_public_id", None),
             completed_at |-> Get(job, "completed_at", None),
             message |-> "Video available on Cloudinary CDN"])
    ELSE IF job["status"] = "failed"
    THEN Response("result", id, 500,
            [detail |-> "Job failed: " \o Get(job, "error", "Unknown error")])
    ELSE IF job["status"] # "completed"
    THEN Response("result", id, 425,
            [detail |-> "Job is still " \o job["status"]])
    ELSE Response("result", id, 500, [detail |-> "Video URL not found"])

\* auto_vlog.py:218-242
ResultResponse(id, job) ==
    IF job["status"] = "failed"
    THEN Response("result", id, 500,
            [detail |-> "Job failed: " \o Get(job, "error", "Unknown error")])
    ELSE IF job["status"] # "completed"
    THEN Response("result", id, 425,
            [detail |-> "Job is still " \o job["status"]])
    ELSE IF ~Truthy(Get(job, "video_url", None))
    THEN Response("result", id, 500, [detail |-> "Video URL not found"])
    ELSE Response("result", id, 200,
            [job_id |-> id,
             video_url |-> Get(job, "video_url", None),
             cloudinary_public_id |-> Get(job, "cloudinary_public_id", None),
             completed_at |-> Get(job, "completed_at", None),
             message |-> "Video available on Cloudinary CDN"])

NotFound(op, id) == Response(op, id, 404, [detail |-> "Job not found"])

\* get_job_status that builds its answer before it merges the file, and so
\* answers with what the previous call left in memory.
get_job_status_StaleSnapshot(id) ==
    IF id \notin DOMAIN jobs
    THEN /\ resp' = NotFound("status", id)
         /\ UNCHANGED <<jobs, fs, tmpdir, worker, faults, others>>
    ELSE /\ jobs' = [jobs EXCEPT ![id] = RefreshFromFile(@, fs[StatusPath(id)])]
         /\ resp' = StatusResponse(id, jobs[id])
         /\ UNCHANGED <<fs, tmpdir, worker, faults, others>>

\* auto_vlog.py:157-193
get_job_status(id) ==
    IF id \notin DOMAIN jobs
    THEN /\ resp' = NotFound("status", id)
         /\ UNCHANGED <<jobs, fs, tmpdir, worker, faults, others>>
    ELSE /\ jobs' = [jobs EXCEPT ![id] = RefreshFromFile(@, fs[StatusPath(id)])]
         /\ resp' = StatusResponse(id, jobs'[id])
         /\ UNCHANGED <<fs, tmpdir, worker, faults, others>>

\* get_job_result that writes the merged entry back to the job file.
get_job_result_WritesBack(id) ==
    IF id \notin DOMAIN jobs
    THEN /\ resp' = NotFound("result", id)
         /\ UNCHANGED <<jobs, fs, tmpdir, worker, faults, others>>
    ELSE /\ jobs' = [jobs EXCEPT ![id] = RefreshFromFile(@, fs[StatusPath(id)])]
         /\ resp' = ResultResponse(id, jobs'[id])
         /\ fs' = WriteFile(fs, StatusPath(id), jobs'[id])
         /\ UNCHANGED <<tmpdir, worker, faults, others>>

\* auto_vlog.py:196-242
get_job_result(id) ==
    IF id \notin DOMAIN jobs
    THEN /\ resp' = NotFound("result", id)
         /\ UNCHANGED <<jobs, fs, tmpdir, worker, faults, others>>
    ELSE /\ jobs' = [jobs EXCEPT ![id] = RefreshFromFile(@, fs[StatusPath(id)])]
         /\ resp' = ResultResponse(id, jobs'[id])
         /\ UNCHANGED <<fs, tmpdir, worker, faults, others>>

(***************************************************************************)
(* The worker: video_worker.py                                             *)
(*                                                                         *)
(* Positions of main (worker[id].pc):                                      *)
(*   u_loading     70        update_job_status(processing, Loading)        *)
(*   load          73-83     read the images file, make the temp dirs      *)
(*   u_decoding    85        update_job_status(processing, Decoding)       *)
(*   decode        88-106    decode and save every image                   *)
(*   u_generating  109       update_job_status(processing, Generating)     *)
(*   generate      116-123   auto_vlog_generator.generate_vlog             *)
(*   blocked                 generate_vlog waits in a write to a full pipe *)
(*   u_completed   126-150   update_job_status(completed, ...)             *)
(*   report        138, 151  print of the outcome, still inside the try    *)
(*   u_failed      153-164   the except handler: update_job_status(failed) *)
(*   cleanup       168-173   shutil.rmtree(temp_dir)                       *)
(*   unlink        176-180   Path(images_file).unlink()                    *)
(*   done                    the process has exited                        *)
(* mid is TRUE inside update_job_status between open(job_file, 'w'), which *)
(* truncates the file, and json.dump.  log holds the failure messages the  *)
(* cleanup block has printed (173, 180).                                   *)
(***************************************************************************)
CLIPS_PER_IMAGE == 2      \* auto_vlog_generator.py:33

UpdateSites == {"u_loading", "u_decoding", "u_generating", "u_completed", "u_failed"}

\* AfterUpdate for a handler that leaves main once the failure is recorded,
\* as if the cleanup were not in a finally block.
AfterUpdateNoFinally(pc) ==
    CASE pc = "u_loading" -> "load"
      [] pc = "u_decoding" -> "decode"
      [] pc = "u_generating" -> "generate"
      [] pc = "u_completed" -> "report"
      [] pc = "u_failed" -> "done"

\* The statement main continues with after an update_job_status call returns.
AfterUpdate(pc) ==
    CASE pc = "u_loading" -> "load"
      [] pc = "u_decoding" -> "decode"
      [] pc = "u_generating" -> "generate"
      [] pc = "u_completed" -> "report"
      [] pc = "u_failed" -> "cleanup"

StatusArgs(status, message, kwargs) ==
    [status |-> status, message |-> message, kwargs |-> kwargs]

\* CompletedArgs that treats a failed upload as a failed job.
CompletedArgsUploadFatal(result) ==
    IF "cloudinary_url" \in DOMAIN result
    THEN StatusArgs("completed", "Video generated and uploaded to Cloudinary CDN",
            [video_url |-> result["cloudinary_url"],
             cloudinary_public_id |-> Get(result, "cloudinary_public_id", None),
             duration |-> Get(result, "duration", None),
             resolution |-> Get(result, "resolution", None),
             clips_count |-> Get(result, "clips_count", None)])
    ELSE StatusArgs("failed", "Video generated but Cloudinary upload failed",
            [error |-> "Cloudinary upload failed"])

\* CompletedArgs that stores the CDN address under the key url.
CompletedArgsUrlKey(result) ==
    IF "cloudinary_url" \in DOMAIN result
    THEN StatusArgs("completed", "Video generated and uploaded to Cloudinary CDN",
            [url |-> result["cloudinary_url"],
             cloudinary_public_id |-> Get(result, "cloudinary_public_id", None),
             duration |-> Get(result, "duration", None),
             resolution |-> Get(result, "resolution", None),
             clips_count |-> Get(result, "clips_count", None)])
    ELSE StatusArgs("completed", "Video generated but Cloudinary upload failed",
            [video_path |-> Get(result, "local_path", None),
             cloudinary_error |-> Get(result, "cloudinary_error", None),
             duration |-> Get(result, "duration", None),
             resolution |-> Get(result, "resolution", None),
             error |-> "Cloudinary upload failed"])

\* video_worker.py:126-150   the arguments of the terminal update on success
CompletedArgs(result) ==
    IF "cloudinary_url" \in DOMAIN result
    THEN StatusArgs("completed", "Video generated and uploaded to Cloudinary CDN",
            [video_url |-> result["cloudinary_url"],
             cloudinary_public_id |-> Get(result, "cloudinary_public_id", None),
             duration |-> Get(result, "duration", None),
             resolution |-> Get(result, "resolution", None),
             clips_count |-> Get(result, "clips_count", None)])
    ELSE StatusArgs("completed", "Video generated but Cloudinary upload failed",
            [video_path |-> Get(result, "local_path", None),
             cloudinary_error |-> Get(result, "cloudinary_error", None),
             duration |-> Get(result, "duration", None),
             resolution |-> Get(result, "resolution", None),
             error |-> "Cloudinary upload failed"])

\* FailedArgs that does not pass the error keyword.
FailedArgsNoError(error_msg) ==
    StatusArgs("failed", "Video generation failed: " \o error_msg, EmptyDict)

\* video_worker.py:153-164   the arguments of the update in the except handler
FailedArgs(error_msg) ==
    StatusArgs("failed", "Video generation failed: " \o error_msg,
               [error |-> error_msg])

\* UpdateArgs whose second progress update names its own status.
UpdateArgsDecodingStatus(w) ==
    CASE w.pc = "u_loading" ->
            StatusArgs("processing", "Loading images...", EmptyDict)
      [] w.pc = "u_decoding" ->
            StatusArgs("decoding",
                       "Decoding " \o ToString(w.images.n) \o " images...", EmptyDict)
      [] w.pc = "u_generating" ->
            StatusArgs("processing", "Generating video with AI effects...", EmptyDict)
      [] w.pc = "u_completed" -> CompletedArgs(w.result)
      [] w.pc = "u_failed" -> FailedArgs(w.exc)

\* video_worker.py:70, 85, 109, 126-150, 159-164   the call made at each site
UpdateArgs(w) ==
    CASE w.pc = "u_loading" ->
            StatusArgs("processing", "Loading images...", EmptyDict)
      [] w.pc = "u_decoding" ->
            StatusArgs("processing",
                       "Decoding " \o ToString(w.images.n) \o " images...", EmptyDict)
      [] w.pc = "u_generating" ->
            StatusArgs("processing", "Generating video with AI effects...", EmptyDict)
      [] w.pc = "u_completed" -> CompletedArgs(w.result)
      [] w.pc = "u_failed" -> FailedArgs(w.exc)

\* UpdatedJobData that builds the record from the arguments alone.
UpdatedJobDataReplaces(old, args, now) ==
    LET d == DictUpdate([status |-> args.status, message |-> args.message],
                        args.kwargs)
    IN  IF args.status = "completed"
        THEN DictUpdate(d, [completed_at |-> now])
        ELSE d

\* video_worker.py:33-41   job_data after job_data.update(...) and the stamp
UpdatedJobData(old, args, now) ==
    LET d == DictUpdate(old,
                DictUpdate([status |-> args.status, message |-> args.message],
                           args.kwargs))
    IN  IF args.status = "completed"
        THEN DictUpdate(d, [completed_at |-> now])
        ELSE d

\* video_worker.py:25-42, 48-49   update_job_status up to open(job_file, 'w').
\* out "io_error": a call of the try block raises before the file is touched
\* (at u_failed also: a print of the handler, 156-157, raises before the call);
\* the except at 48 swallows it and main goes on.
UpdateOpen(id, now, out) ==
    LET w == worker[id]
        f == fs[StatusPath(id)]
    IN  /\ w.pc \in UpdateSites
        /\ ~w.mid
        /\ IF out = "io_error"
           THEN /\ faults < MaxFaults
                /\ faults' = faults + 1
                /\ worker' = [worker EXCEPT ![id].pc = AfterUpdate(w.pc)]
                /\ UNCHANGED fs
           ELSE IF f.kind = "partial"
           THEN \* 29: json.load raises on a file that does not parse
                /\ worker' = [worker EXCEPT ![id].pc = AfterUpdate(w.pc)]
                /\ UNCHANGED <<fs, faults>>
           ELSE /\ worker' = [worker EXCEPT
                     ![id].mid = TRUE,
                     ![id].job_data =
                         UpdatedJobData(IF f.kind = "json" THEN f.data ELSE EmptyDict,
                                        UpdateArgs(w), now)]
                /\ fs' = TruncateFile(fs, StatusPath(id))
                /\ UNCHANGED faults
        /\ UNCHANGED <<jobs, tmpdir, resp, others>>

\* video_worker.py:44-49   json.dump into the truncated file.
\* out "io_error": the write raises and leaves the file half written.
UpdateDump(id, out) ==
    LET w == worker[id]
    IN  /\ w.pc \in UpdateSites
        /\ w.mid
        /\ IF out = "io_error"
           THEN /\ faults < MaxFaults
                /\ faults' = faults + 1
                /\ UNCHANGED fs
           ELSE /\ fs' = WriteFile(fs, StatusPath(id), w.job_data)
                /\ UNCHANGED faults
        /\ worker' = [worker EXCEPT
               ![id].pc = AfterUpdate(w.pc),
               ![id].mid = FALSE,
               ![id].job_data = EmptyDict]
        /\ UNCHANGED <<jobs, tmpdir, resp, others>>

\* Raise that calls generate_vlog again when it was generate_vlog that raised.
RaiseRetries(w, msg) ==
    IF w.pc = "generate"
    THEN [w EXCEPT !.exc = msg]
    ELSE [w EXCEPT !.pc = "u_failed", !.exc = msg]

\* An exception reaches main's except clause (153): the handler runs next.
Raise(w, msg) == [w EXCEPT !.pc = "u_failed", !.exc = msg]

\* video_worker.py:73-83
LoadImages(id, out) ==
    LET w == worker[id]
        f == fs[ImagesPath(id)]
    IN  /\ w.pc = "load"
        /\ IF out = "io_error"
           THEN /\ faults < MaxFaults
                /\ faults' = faults + 1
                /\ worker' = [worker EXCEPT ![id] = Raise(w, "[Errno 5] Input/output error")]
                /\ UNCHANGED tmpdir
           ELSE IF f.kind # "json"
           THEN /\ worker' = [worker EXCEPT ![id] = Raise(w, "cannot read the images file")]
                /\ UNCHANGED <<tmpdir, faults>>
           ELSE /\ worker' = [worker EXCEPT
                     ![id].pc = "u_decoding",
                     ![id].images = f.data,
                     ![id].temp_dir = TRUE]
                /\ tmpdir' = [tmpdir EXCEPT ![id] = "empty"]
                /\ UNCHANGED faults
        /\ UNCHANGED <<jobs, fs, resp, others>>

\* video_worker.py:88-106   base64.b64decode raises on the first bad image
DecodeImages(id) ==
    LET w == worker[id]
    IN  /\ w.pc = "decode"
        /\ IF w.images.bad = 0
           THEN /\ worker' = [worker EXCEPT ![id].pc = "u_generating"]
                /\ tmpdir' = [tmpdir EXCEPT ![id] = "decoded"]
           ELSE /\ worker' = [worker EXCEPT ![id] = Raise(w, "Incorrect padding")]
                /\ tmpdir' = [tmpdir EXCEPT ![id] =
                                 IF w.images.bad > 1 THEN "decoded" ELSE "empty"]
        /\ UNCHANGED <<jobs, fs, resp, faults, others>>

\* What generate_vlog and the upload it makes can end in.
UploadOutcomes == {"uploaded", "upload_failed", "no_upload"}

\* auto_vlog_generator.py:320-324, 428-455   the dict generate_vlog returns
GenerateResult(id, n, upload) ==
    LET base == [local_path |-> TempDir(id) \o "/output/auto_vlog.mp4",
                 duration |-> "5.0",
                 resolution |-> "1920x1080",
                 clips_count |-> ToString(IF n = 1 THEN CLIPS_PER_IMAGE ELSE n)]
    IN  CASE upload = "uploaded" ->
                DictUpdate(base, [cloudinary_url |-> "https://cdn/auto_vlog.mp4",
                                  cloudinary_public_id |-> "auto_vlogs/auto_vlog"])
          [] upload = "upload_failed" ->
                DictUpdate(base, [cloudinary_error |-> "upload timed out"])
          [] upload = "no_upload" -> base

\* video_worker.py:116-123   out is an upload outcome, or "raise" with message
\* msg, or "blocked": stdout and stderr of the process are pipes that
\* auto_vlog.py:70-75 opens and nothing ever reads, and write_videofile
\* (auto_vlog_generator.py:407) draws its progress bar on stderr; once the
\* output outgrows the pipe's capacity the write does not return.
GenerateVlog(id, out, msg) ==
    LET w == worker[id]
    IN  /\ w.pc = "generate"
        /\ IF out = "raise"
           THEN /\ worker' = [worker EXCEPT ![id] = Raise(w, msg)]
                /\ UNCHANGED tmpdir
           ELSE IF out = "blocked"
           THEN /\ worker' = [worker EXCEPT ![id].pc = "blocked"]
                /\ UNCHANGED tmpdir
           ELSE /\ worker' = [worker EXCEPT
                     ![id].pc = "u_completed",
                     ![id].result = GenerateResult(id, w.images.n, out)]
                /\ tmpdir' = [tmpdir EXCEPT ![id] = "rendered"]
        /\ UNCHANGED <<jobs, fs, resp, faults, others>>

\* video_worker.py:138, 151   the print after the terminal update is inside the
\* try block; stdout is a pipe nobody reads (auto_vlog.py:70-75).
\* out "io_error": the print raises (BrokenPipeError).
ReportDone(id, out) ==
    LET w == worker[id]
    IN  /\ w.pc = "report"
        /\ IF out = "io_error"
           THEN /\ faults < MaxFaults
                /\ faults' = faults + 1
                /\ worker' = [worker EXCEPT ![id] = Raise(w, "[Errno 32] Broken pipe")]
           ELSE /\ worker' = [worker EXCEPT ![id].pc = "cleanup"]
                /\ UNCHANGED faults
        /\ UNCHANGED <<jobs, fs, tmpdir, resp, others>>

\* video_worker.py:168-173   out "io_error": rmtree raises, 172 swallows it
CleanupTemp(id, out) ==
    LET w == worker[id]
    IN  /\ w.pc = "cleanup"
        /\ IF out = "io_error"
           THEN /\ faults < MaxFaults
                /\ w.temp_dir /\ tmpdir[id] # "none"
                /\ faults' = faults + 1
                /\ worker' = [worker EXCEPT
                     ![id].pc = "unlink",
                     ![id].log = @ \cup {"Failed to cleanup temp directory"}]
                /\ UNCHANGED tmpdir
           ELSE /\ tmpdir' = IF w.temp_dir /\ tmpdir[id] # "none"
                             THEN [tmpdir EXCEPT ![id] = "none"]
                             ELSE tmpdir
                /\ worker' = [worker EXCEPT ![id].pc = "unlink"]
                /\ UNCHANGED faults
        /\ UNCHANGED <<jobs, fs, resp, others>>

\* video_worker.py:176-180   out "io_error": unlink raises, 179 swallows it
CleanupImages(id, out) ==
    LET w == worker[id]
    IN  /\ w.pc = "unlink"
        /\ IF out = "io_error"
           THEN /\ faults < MaxFaults
                /\ faults' = faults + 1
                /\ worker' = [worker EXCEPT
                     ![id].pc = "done",
                     ![id].log = @ \cup {"Failed to cleanup images file"}]
                /\ UNCHANGED fs
           ELSE /\ fs' = UnlinkFile(fs, ImagesPath(id))
                /\ worker' = [worker EXCEPT ![id].pc = "done"]
                /\ UNCHANGED faults
        /\ UNCHANGED <<jobs, tmpdir, resp, others>>

(***************************************************************************)
(* The voice routes: voice_clone.py get_voice_system and                   *)
(* voice_cloning_coqui.py VoiceCloningSystem                               *)
(*                                                                         *)
(* voice_system is a record; made = FALSE stands for the Python None the   *)
(* global starts as.  voice_log holds one entry per get_voice_system call: *)
(* who called, what load_model did in it ("none" when it was not called),  *)
(* whether the call returned (it raises otherwise), and the instance as    *)
(* it was when the call ended.                                             *)
(***************************************************************************)
MaxVoiceCalls == 3    \* get_voice_system calls in one run

\* voice_clone.py:194, 239, 267   the routes that call get_voice_system
VoiceCallers == {"simple_tts", "voice_clone_health", "list_voices"}

\* voice_cloning_coqui.py:30-34   what _get_device("auto") may choose
Devices == {"cpu", "cuda"}

\* voice_cloning_coqui.py:44-61   load_model returns, or raises one of two ways
LoadOutcomes == {"ok", "ImportError", "error"}

\* voice_clone.py:27
NoVoiceSystem == [made |-> FALSE, device |-> None, model_loaded |-> FALSE]

\* voice_cloning_coqui.py:19-28   __init__
VoiceCloningSystem(device) == [made |-> TRUE, device |-> device, model_loaded |-> FALSE]

\* voice_cloning_coqui.py:36-61   the instance after load_model, by outcome
load_model(self, out) ==
    IF out = "ok" THEN [self EXCEPT !.model_loaded = TRUE] ELSE self

\* voice_clone.py:29-37   the global is assigned (33) before load_model is
\* called on it (34), so an instance whose load raised stays in the global
get_voice_system(caller, device, out) ==
    /\ Len(voice_log) < MaxVoiceCalls
    /\ IF ~voice_system.made
       THEN LET loaded == load_model(VoiceCloningSystem(device), out)
            IN  /\ voice_system' = loaded
                /\ voice_log' = Append(voice_log,
                      [caller |-> caller, load |-> out,
                       returned |-> (out = "ok"), handle |-> loaded])
       ELSE /\ UNCHANGED voice_system
            /\ voice_log' = Append(voice_log,
                  [caller |-> caller, load |-> "none",
                   returned |-> TRUE, handle |-> voice_system])
    /\ UNCHANGED <<jobVars, itemVars>>

(***************************************************************************)
(* The item service: item_service.py ItemService                           *)
(*                                                                         *)
(* An item is a record of its id, name, is_available and timestamps;       *)
(* description and price are carried exactly as name is and are left out.  *)
(* item_ret is the value the last call returned: ok = FALSE stands for     *)
(* None (update_item) and False (delete_item), id is the id of the item    *)
(* returned, 0 when there is none.                                         *)
(***************************************************************************)
MaxCreates == 2       \* create_item calls in one run

Item(id, name, avail, created, updated) ==
    [id |-> id, name |-> name, is_available |-> avail,
     created_at |-> created, updated_at |-> updated]

\* item_service.py:16-35
InitialItems ==
    <<Item(1, "Photo Print", TRUE, "t0", "t0"),
      Item(2, "Digital Package", TRUE, "t0", "t0")>>

\* the ids a caller may ask for: every id that can be stored, and one more
ItemIds == 1..(Len(InitialItems) + MaxCreates + 1)

\* ItemUpdate.model_dump(exclude_unset=True): the fields a request sets
ItemUpdates == {EmptyDict, [is_available |-> FALSE]}

ItemReturn(op, ok, id) == [op |-> op, ok |-> ok, id |-> id]

\* item_service.py:42-44   index of the first item with this id, 0 for None
get_item_by_id(list, item_id) ==
    LET hits == {i \in 1..Len(list) : list[i].id = item_id}
    IN  IF hits = {} THEN 0 ELSE CHOOSE i \in hits : \A j \in hits : i <= j

\* list.remove(x): the list without its first element equal to x
Remove(list, x) ==
    LET hits == {i \in 1..Len(list) : list[i] = x}
        first == CHOOSE i \in hits : \A j \in hits : i <= j
    IN  [i \in 1..(Len(list) - 1) |-> IF i < first THEN list[i] ELSE list[i + 1]]

\* create_item that numbers the new item by the length of the list.
create_item_CountsItems(name, avail, now) ==
    /\ next_id < Len(InitialItems) + MaxCreates + 1
    /\ items' = Append(items, Item(Len(items) + 1, name, avail, now, now))
    /\ next_id' = next_id + 1
    /\ item_ret' = ItemReturn("create", TRUE, Len(items) + 1)
    /\ UNCHANGED <<jobVars, voiceVars>>

\* item_service.py:46-59
create_item(name, avail, now) ==
    /\ next_id < Len(InitialItems) + MaxCreates + 1
    /\ items' = Append(items, Item(next_id, name, avail, now, now))
    /\ next_id' = next_id + 1
    /\ item_ret' = ItemReturn("create", TRUE, next_id)
    /\ UNCHANGED <<jobVars, voiceVars>>

\* item_service.py:61-73
update_item(item_id, item_update, now) ==
    LET i == get_item_by_id(items, item_id)
    IN  /\ IF i = 0
           THEN /\ item_ret' = ItemReturn("update", FALSE, 0)
                /\ UNCHANGED items
           ELSE /\ items' = [items EXCEPT ![i] =
                     [@ EXCEPT !.name = Get(item_update, "name", @),
                               !.is_available = Get(item_update, "is_available", @),
                               !.updated_at = now]]
                /\ item_ret' = ItemReturn("update", TRUE, items[i].id)
        /\ UNCHANGED <<next_id, jobVars, voiceVars>>

\* item_service.py:75-82
delete_item(item_id) ==
    LET i == get_item_by_id(items, item_id)
    IN  /\ IF i = 0
           THEN /\ item_ret' = ItemReturn("delete", FALSE, 0)
                /\ UNCHANGED items
           ELSE /\ items' = Remove(items, items[i])
                /\ item_ret' = ItemReturn("delete", TRUE, 0)
        /\ UNCHANGED <<next_id, jobVars, voiceVars>>

(***************************************************************************)
(* The system                                                              *)
(***************************************************************************)
Outcomes == {"ok", "io_error"}

Init ==
    /\ jobs = [k \in {} |-> EmptyDict]
    /\ fs = [p \in Paths |-> Absent]
    /\ tmpdir = [id \in Uuids |-> "none"]
    /\ worker = [id \in Uuids |-> NoWorker]
    /\ resp = Response("none", None, 0, EmptyDict)
    /\ faults = 0
    /\ voice_system = NoVoiceSystem
    /\ voice_log = <<>>
    /\ items = InitialItems
    /\ next_id = Len(InitialItems) + 1
    /\ item_ret = ItemReturn("none", FALSE, 0)

Submit ==
    \E n \in ImageCounts, bad \in 0..MaxBadIndex, t \in SubmitTimes, out \in LaunchOutcomes :
        bad <= n /\ generate_auto_vlog(n, bad, t, out)

ReadStatus == \E id \in Uuids : get_job_status(id)

ReadResult == \E id \in Uuids : get_job_result(id)

WorkerUpdateOpen ==
    \E id \in JobIds, now \in WorkerTimes, out \in Outcomes : UpdateOpen(id, now, out)

WorkerUpdateDump == \E id \in JobIds, out \in Outcomes : UpdateDump(id, out)

WorkerLoad == \E id \in JobIds, out \in Outcomes : LoadImages(id, out)

WorkerDecode == \E id \in JobIds : DecodeImages(id)

WorkerGenerate ==
    \E id \in JobIds :
        \/ \E up \in UploadOutcomes : GenerateVlog(id, up, None)
        \/ \E msg \in GenErrors : GenerateVlog(id, "raise", msg)
        \/ GenerateVlog(id, "blocked", None)

WorkerReport == \E id \in JobIds, out \in Outcomes : ReportDone(id, out)

WorkerCleanupTemp == \E id \in JobIds, out \in Outcomes : CleanupTemp(id, out)

WorkerCleanupImages == \E id \in JobIds, out \in Outcomes : CleanupImages(id, out)

WorkerStep ==
    \/ WorkerUpdateOpen
    \/ WorkerUpdateDump
    \/ WorkerLoad
    \/ WorkerDecode
    \/ WorkerGenerate
    \/ WorkerReport
    \/ WorkerCleanupTemp
    \/ WorkerCleanupImages

Next ==
    \/ Submit
    \/ ReadStatus
    \/ ReadResult
    \/ WorkerStep

Spec == Init /\ [][Next]_vars

\* The operating system schedules a worker process that can take a step.
LiveSpec == Spec /\ WF_vars(WorkerStep)

\* Two submissions of one good image each, and their workers running side by
\* side with no I/O fault: generation is uploaded, or raises.
\* ConcurrentSubmit whose uuid4 may return an id it has returned before.
ConcurrentSubmitReissues ==
    \E id \in Uuids, t \in SubmitTimes : create_job(id, 1, 0, t, "ok")

ConcurrentSubmit ==
    \E id \in Uuids \ DOMAIN jobs, t \in SubmitTimes : create_job(id, 1, 0, t, "ok")

ConcurrentWorker ==
    \E id \in Uuids :
        \/ \E now \in WorkerTimes : UpdateOpen(id, now, "ok")
        \/ UpdateDump(id, "ok")
        \/ LoadImages(id, "ok")
        \/ DecodeImages(id)
        \/ GenerateVlog(id, "uploaded", None)
        \/ GenerateVlog(id, "raise", "render failed")
        \/ ReportDone(id, "ok")
        \/ CleanupTemp(id, "ok")
        \/ CleanupImages(id, "ok")

ConcurrentNext ==
    \/ ConcurrentSubmit
    \/ ConcurrentWorker

ConcurrentSpec == Init /\ [][ConcurrentNext]_vars

\* The voice routes on their own: any route asks for the voice system.
VoiceNext ==
    \E caller \in VoiceCallers, device \in Devices, out \in LoadOutcomes :
        get_voice_system(caller, device, out)

VoiceSpec == Init /\ [][VoiceNext]_vars

\* The item service on its own.
ItemTimes == {"t1"}                   \* datetime.utcnow() read by a call

CreateItem == \E now \in ItemTimes : create_item("Frame", TRUE, now)

UpdateItem ==
    \E item_id \in ItemIds, item_update \in ItemUpdates, now \in ItemTimes :
        update_item(item_id, item_update, now)

DeleteItem == \E item_id \in ItemIds : delete_item(item_id)

ItemNext ==
    \/ CreateItem
    \/ UpdateItem
    \/ DeleteItem

ItemSpec == Init /\ [][ItemNext]_vars

(***************************************************************************)
(* Vocabulary of the properties                                            *)
(***************************************************************************)
Terminal == {"completed", "failed"}
InProgress == {"queued", "processing"}

HasRecord(id) == fs[StatusPath(id)].kind = "json"
Record(id) == fs[StatusPath(id)].data
Status(id) == Record(id)["status"]

Populated(d, k) == Get(d, k, None) # None
HasResult(d) == Populated(d, "video_url") \/ Populated(d, "video_path")
HasError(d) == Populated(d, "error")

\* The records of job id: the persisted one and the in-memory one.
RecordsOf(id) ==
    (IF HasRecord(id) THEN {Record(id)} ELSE {})
        \cup (IF id \in DOMAIN jobs THEN {jobs[id]} ELSE {})

Exited(id) == worker[id].pc = "done"
StagingRemoved(id) ==
    tmpdir[id] = "none" /\ fs[ImagesPath(id)].kind = "absent"

\* The exception main caught came from decoding or from generate_vlog.
PipelineRaised(id) == worker[id].exc \in GenErrors \cup {"Incorrect padding"}

UploadFailed(id) ==
    /\ worker[id].result # EmptyDict
    /\ "cloudinary_url" \notin DOMAIN worker[id].result

\* The response on display answers get_job_result for a known job.
ResultAnswered == resp.op = "result" /\ resp.code # 404

\* Some submission has answered 202 with job id: auto_vlog.py:134-148 returns
\* the id exactly when start_subprocess_worker has launched the worker.
Returned(id) == worker[id].pc # "none"

\* What a submission may be asked to do.
Submissions ==
    {r \in [n : ImageCounts, bad : 0..MaxBadIndex, t : SubmitTimes, out : LaunchOutcomes] :
        r.bad <= r.n}

(***************************************************************************)
(* C1  Once the persisted record holds completed or failed, no later      *)
(* write changes that status, and no read that follows a read of a        *)
(* terminal status returns another status.  Stated on every step: a       *)
(* record with a terminal status keeps it, a rewrite that begins on such  *)
(* a record is about to write the same status, and the status of the      *)
(* in-memory entry, which is what the readers return, stays as it is.     *)
(***************************************************************************)
C1_TerminalStatusIsFinal ==
    [][\A id \in JobIds :
        /\ (HasRecord(id) /\ Status(id) \in Terminal) =>
              /\ HasRecord(id)' => Status(id)' = Status(id)
              /\ worker'[id].mid => worker'[id].job_data["status"] = Status(id)
        /\ (id \in DOMAIN jobs /\ jobs[id]["status"] \in Terminal) =>
              jobs'[id]["status"] = jobs[id]["status"]
      ]_vars

(***************************************************************************)
(* C2  The statuses the persisted record holds over time follow queued,   *)
(* processing, then one of completed or failed.  Stated on every rewrite  *)
(* the worker begins: the status it is about to write follows the status  *)
(* the record holds by one of the arrows of the state machine (or keeps   *)
(* processing).                                                            *)
(***************************************************************************)
AllowedTransition(old, new) ==
    \/ old = "queued" /\ new = "processing"
    \/ old = "processing" /\ new \in {"processing", "completed", "failed"}

C2_StatusFollowsStateMachine ==
    [][\A id \in JobIds :
        (HasRecord(id) /\ ~worker[id].mid /\ worker'[id].mid) =>
            AllowedTransition(Status(id), worker'[id].job_data["status"])
      ]_vars

C4_CompletedJobHasResult ==
    (faults = 0 /\ ResultAnswered /\ jobs[resp.job]["status"] = "completed") =>
        /\ resp.code = 200
        /\ Truthy(Get(resp.body, "video_url", None))

C6_TerminalRecordHasCompletedAt ==
    \A id \in JobIds :
        (faults = 0 /\ HasRecord(id)) =>
            (Status(id) \in Terminal <=> Populated(Record(id), "completed_at"))

C8_PipelineFailureRecorded ==
    \A id \in JobIds :
        (faults = 0 /\ PipelineRaised(id)
            /\ worker[id].pc \in {"cleanup", "unlink", "done"}) =>
            /\ HasRecord(id)
            /\ Status(id) = "failed"
            /\ Truthy(Get(Record(id), "error", None))
            /\ Exited(id) => StagingRemoved(id)

(***************************************************************************)
(* C9  get_result on a known job whose status is queued or processing     *)
(* answers 425 (NotReady) with a detail text only, and no part of a       *)
(* result.                                                                 *)
(***************************************************************************)
C9_NotReadyWhileInProgress ==
    (ResultAnswered /\ jobs[resp.job]["status"] \in InProgress) =>
        /\ resp.code = 425
        /\ DOMAIN resp.body = {"detail"}

\* Not-ready answers are given for a queued job and for a job in the middle
\* of generation.
C9_Witness ==
    /\ ResultAnswered
    /\ resp.code = 425
    /\ jobs[resp.job]["status"] = "processing"
    /\ worker[resp.job].pc = "generate"

(***************************************************************************)
(* C10  get_result on a job whose status is failed answers with an error  *)
(* (500) whose detail carries the error recorded in the job record, and   *)
(* with no result payload, also when the record holds a video_url left    *)
(* by an earlier write.                                                    *)
(***************************************************************************)
C10_FailedJobAnswersWithError ==
    (ResultAnswered /\ jobs[resp.job]["status"] = "failed") =>
        /\ resp.code = 500
        /\ resp.body = [detail |-> "Job failed: " \o jobs[resp.job]["error"]]
        /\ (HasRecord(resp.job) /\ Status(resp.job) = "failed") =>
               resp.body["detail"] = "Job failed: " \o Record(resp.job)["error"]

\* A failed answer for a job whose record still holds the video URL.
C10_Witness ==
    /\ ResultAnswered
    /\ resp.code = 500
    /\ jobs[resp.job]["status"] = "failed"
    /\ Populated(jobs[resp.job], "video_url")
    /\ HasRecord(resp.job)
    /\ Populated(Record(resp.job), "video_url")

(***************************************************************************)
(* C11  get_status and get_result on a job id that no submission has      *)
(* returned answer 404 (NotFound) and leave the in-memory tracker and the *)
(* files as they are; on a job id that a submission has returned they     *)
(* never answer 404.                                                       *)
(***************************************************************************)
C11_UnknownIdIsNotFound ==
    [][\A id \in Uuids :
        (get_job_status(id) \/ get_job_result(id)) =>
            IF Returned(id)
            THEN resp'.code # 404
            ELSE resp'.code = 404 /\ jobs' = jobs /\ fs' = fs
      ]_vars

(***************************************************************************)
(* C12  A submission of 0 images or of more than 20 images is answered    *)
(* 400 (InvalidInput) with no job id, and it leaves the in-memory         *)
(* tracker, the files, the temporary directories and the worker processes *)
(* as they are; a submission of 1 to 20 images is never answered 400.     *)
(***************************************************************************)
C12_InvalidInputRejectedWithoutJob ==
    [][\A r \in Submissions :
        generate_auto_vlog(r.n, r.bad, r.t, r.out) =>
            IF r.n = 0 \/ r.n > 20
            THEN /\ resp'.code = 400
                 /\ resp'.job = None
                 /\ "job_id" \notin DOMAIN resp'.body
                 /\ UNCHANGED <<jobs, fs, tmpdir, worker>>
            ELSE resp'.code # 400
      ]_vars

\* An oversized submission has been rejected and nothing exists for it.
C12_Witness ==
    /\ resp.op = "submit"
    /\ resp.code = 400
    /\ resp.body = [detail |-> "Maximum 20 images allowed"]
    /\ resp.job = None
    /\ jobs = [k \in {} |-> EmptyDict]
    /\ \A p \in Paths : fs[p].kind = "absent"

(***************************************************************************)
(* C13  A submission launches a worker only after it has written the job  *)
(* file with the initial record, status queued; the step that launches    *)
(* the worker answers 202 with the new job id and status queued, and the  *)
(* worker has not taken any step by then.  A 202 is answered only for a   *)
(* job launched in that same step.                                         *)
(***************************************************************************)
C13_RecordWrittenBeforeLaunch ==
    [][\A r \in Submissions :
        generate_auto_vlog(r.n, r.bad, r.t, r.out) =>
            \A id \in Uuids :
                /\ (worker[id].pc = "none" /\ worker'[id].pc # "none") =>
                      /\ fs'[StatusPath(id)].kind = "json"
                      /\ fs'[StatusPath(id)].data["status"] = "queued"
                      /\ fs'[StatusPath(id)].data["created_at"] = r.t
                      /\ worker'[id] = [NoWorker EXCEPT !.pc = "u_loading"]
                      /\ resp'.code = 202
                      /\ resp'.body["job_id"] = id
                      /\ resp'.body["status"] = "queued"
                /\ (resp'.code = 202 /\ resp'.job = id) =>
                      worker[id].pc = "none" /\ worker'[id].pc # "none"
      ]_vars

\* A submission has just been accepted: the record is on disk and the worker
\* stands at the top of main.
C13_Witness ==
    /\ resp.op = "submit"
    /\ resp.code = 202
    /\ worker[resp.job] = [NoWorker EXCEPT !.pc = "u_loading"]
    /\ HasRecord(resp.job)
    /\ Status(resp.job) = "queued"
    /\ fs[ImagesPath(resp.job)].kind = "json"

(***************************************************************************)
(* C14  While the job file of a submitted job still holds the record the  *)
(* submitter wrote (the worker has not written to it), every get_status   *)
(* answer for that job carries status queued.                              *)
(***************************************************************************)
NotYetWritten(id) ==
    HasRecord(id) /\ \E t \in SubmitTimes : Record(id) = InitialJob(t)

C14_QueuedBeforeWorkerWrites ==
    (resp.op = "status" /\ resp.code = 200
        /\ Returned(resp.job) /\ NotYetWritten(resp.job)) =>
        resp.body["status"] = "queued"

\* get_status has answered queued for a job whose worker runs and has not
\* yet touched the job file.
C14_Witness ==
    /\ resp.op = "status"
    /\ resp.code = 200
    /\ resp.body["status"] = "queued"
    /\ NotYetWritten(resp.job)
    /\ worker[resp.job].pc = "u_loading"
    /\ ~worker[resp.job].mid

(***************************************************************************)
(* C15  get_status is idempotent: a get_status call leaves every file as  *)
(* it was, and another get_status call on the same job made right after   *)
(* it, with no worker write in between, leaves the in-memory entry as the *)
(* first call left it and gives the same snapshot.                         *)
(***************************************************************************)
C15_GetStatusIdempotent ==
    [][\A id \in DOMAIN jobs :
        get_job_status(id) =>
            LET again == RefreshFromFile(jobs'[id], fs'[StatusPath(id)])
            IN  /\ fs' = fs
                /\ again = jobs'[id]
                /\ StatusResponse(id, again) = resp'
      ]_vars

\* A job polled in the middle of its run: the answer is the record on disk.
C15_Witness ==
    /\ resp.op = "status"
    /\ resp.code = 200
    /\ resp.body["status"] = "processing"
    /\ HasRecord(resp.job)
    /\ jobs[resp.job] = Record(resp.job)
    /\ StatusResponse(resp.job, jobs[resp.job]) = resp

(***************************************************************************)
(* C16  get_status and get_result answer with the status the job file     *)
(* holds when they are called, never with one kept from an earlier call:  *)
(* once the worker has finished its first write (processing), no read     *)
(* answers queued, and a read of a record that parses answers with that   *)
(* record's status.  Stated of the runs in which no I/O call has failed.  *)
(***************************************************************************)
C16_ReadsReflectFinishedWrite ==
    [][\A id \in DOMAIN jobs :
        ((get_job_status(id) \/ get_job_result(id))
            /\ faults = 0 /\ worker[id].pc \notin {"none", "u_loading"}) =>
            /\ jobs'[id]["status"] # "queued"
            /\ HasRecord(id) => jobs'[id]["status"] = Status(id)
      ]_vars

(***************************************************************************)
(* C17  When the worker cannot be started (the script is missing, staging *)
(* the images file fails, or the launch raises), the submission is        *)
(* answered with an error (500) that carries no job id and no worker      *)
(* runs, or else the job's record is marked failed.                        *)
(***************************************************************************)
LaunchFailures == {"no_script", "stage_fail", "popen_fail"}

C17_LaunchFailureRejected ==
    [][\A r \in Submissions :
        (r.out \in LaunchFailures /\ generate_auto_vlog(r.n, r.bad, r.t, r.out)) =>
            \/ /\ resp'.code = 500
               /\ resp'.job = None
               /\ "job_id" \notin DOMAIN resp'.body
               /\ worker' = worker
            \/ \E id \in DOMAIN jobs' \ DOMAIN jobs :
                  /\ fs'[StatusPath(id)].kind = "json"
                  /\ fs'[StatusPath(id)].data["status"] = "failed"
      ]_vars

\* A submission has been rejected after the images file was staged and the
\* launch raised.
C17_Witness ==
    /\ resp.op = "submit"
    /\ resp.code = 500
    /\ resp.body = [detail |-> "Failed to start video generation worker"]
    /\ \E id \in DOMAIN jobs :
          /\ worker[id].pc = "none"
          /\ fs[ImagesPath(id)].kind = "json"

(***************************************************************************)
(* C18  The job file of a job changes only in the step of the submitter   *)
(* that creates the job, which writes the initial record, and in the      *)
(* steps of that job's worker inside update_job_status; get_status and    *)
(* get_result leave every file as it was.                                  *)
(***************************************************************************)
C18_OnlyCreatorAndWorkerWrite ==
    [][/\ \A id \in Uuids :
            fs'[StatusPath(id)] # fs[StatusPath(id)] =>
                \/ /\ id \notin DOMAIN jobs
                   /\ id \in DOMAIN jobs'
                   /\ fs'[StatusPath(id)] = Json(jobs'[id])
                   /\ jobs'[id]["status"] = "queued"
                \/ /\ worker[id].pc \in UpdateSites
                   /\ worker'[id] # worker[id]
                   /\ UNCHANGED <<jobs, resp>>
       /\ \A id \in Uuids : (get_job_status(id) \/ get_job_result(id)) => fs' = fs
      ]_vars

\* get_result has answered with the video of a completed job and the job
\* file is the record the worker wrote.
C18_Witness ==
    /\ resp.op = "result"
    /\ resp.code = 200
    /\ HasRecord(resp.job)
    /\ Status(resp.job) = "completed"
    /\ Exited(resp.job)
    /\ resp.body["video_url"] = Record(resp.job)["video_url"]

(***************************************************************************)
(* C19  Every job whose worker was launched eventually has completed or   *)
(* failed in its job file, whether or not anybody polls, when the worker  *)
(* process is scheduled fairly.  Stated of the runs in which no I/O call  *)
(* has failed.                                                             *)
(***************************************************************************)
C19_LaunchedJobTerminates ==
    \A id \in JobIds :
        Returned(id) ~> (faults > 0 \/ (HasRecord(id) /\ Status(id) \in Terminal))

(***************************************************************************)
(* C20  The status file, the staged images file and the temporary         *)
(* directory of two distinct job ids are six distinct paths, and with two *)
(* workers running side by side a step of one job (its creation or a step *)
(* of its worker) leaves the other job's status file, images file,        *)
(* temporary directory and worker as they were.                            *)
(***************************************************************************)
PathsOf(id) == {StatusPath(id), ImagesPath(id), TempDir(id)}

C20_JobsShareNoPath ==
    [][/\ \A a \in Uuids \cup UuidSamples :
            /\ Cardinality(PathsOf(a)) = 3
            /\ \A b \in (Uuids \cup UuidSamples) \ {a} : PathsOf(a) \cap PathsOf(b) = {}
       /\ \A id \in Uuids :
            worker'[id] # worker[id] =>
                \A other \in Uuids \ {id} :
                    /\ worker'[other] = worker[other]
                    /\ fs'[StatusPath(other)] = fs[StatusPath(other)]
                    /\ fs'[ImagesPath(other)] = fs[ImagesPath(other)]
                    /\ tmpdir'[other] = tmpdir[other]
      ]_vars

\* One worker has exited and removed what was staged for it while the other
\* is still decoding, with its record, its images file and its directory in
\* place.
C20_Witness ==
    \E id \in Uuids : \E other \in Uuids \ {id} :
        /\ Exited(id)
        /\ StagingRemoved(id)
        /\ HasRecord(id)
        /\ Status(id) = "completed"
        /\ worker[other].pc = "decode"
        /\ HasRecord(other)
        /\ Status(other) = "processing"
        /\ fs[ImagesPath(other)].kind = "json"
        /\ tmpdir[other] = "empty"

(***************************************************************************)
(* C21  While nothing has raised and no I/O call has failed, the status   *)
(* in the job file changes only from queued to processing and from        *)
(* processing to completed; once generation and upload have succeeded and *)
(* the worker is past its terminal update, the job file holds completed   *)
(* with the CDN address as video_url, and get_result answers 200 with     *)
(* that non-empty video_url.                                               *)
(***************************************************************************)
PastTerminalUpdate == {"report", "cleanup", "unlink", "done"}

Uploaded(w) == w.pc \in PastTerminalUpdate /\ "cloudinary_url" \in DOMAIN w.result

PcRank(pc) ==
    CASE pc = "none" -> 0
      [] pc = "u_loading" -> 1
      [] pc = "load" -> 2
      [] pc = "u_decoding" -> 3
      [] pc = "decode" -> 4
      [] pc = "u_generating" -> 5
      [] pc = "generate" -> 6
      [] pc = "blocked" -> 7
      [] pc = "u_completed" -> 7
      [] pc = "report" -> 8
      [] pc = "u_failed" -> 9
      [] pc = "cleanup" -> 10
      [] pc = "unlink" -> 11
      [] pc = "done" -> 12

C22_PipelineFailsWithoutRetry ==
    [][\A id \in JobIds :
        LET w == worker[id]
            v == worker'[id]
        IN  /\ PcRank(v.pc) >= PcRank(w.pc)
            /\ (w.pc = "generate" /\ v # w) => v.pc # "generate"
            /\ (v.pc = "generate" /\ w.pc # "generate") =>
                  w.pc = "u_generating" /\ w.exc = None
            /\ v.exc = "Incorrect padding" =>
                  /\ v.pc \in {"u_failed", "cleanup", "unlink", "done"}
                  /\ v.result = EmptyDict
            /\ (w.pc = "u_failed" /\ ~w.mid /\ v.mid) =>
                  /\ v.job_data["status"] = "failed"
                  /\ v.job_data["error"] = w.exc
            /\ (faults' = 0 /\ PipelineRaised(id)'
                    /\ v.pc \in {"cleanup", "unlink", "done"}) =>
                  /\ HasRecord(id)'
                  /\ Status(id)' = "failed"
                  /\ Record(id)'["error"] = v.exc
      ]_vars

\* generate_vlog raised once, the record is failed with its text, and the
\* worker has exited.
C22_Witness ==
    \E id \in JobIds :
        /\ Exited(id)
        /\ worker[id].exc = "render failed"
        /\ worker[id].result = EmptyDict
        /\ HasRecord(id)
        /\ Status(id) = "failed"
        /\ Record(id)["error"] = "render failed"

(***************************************************************************)
(* C23  Each of the three progress updates (before loading, before        *)
(* decoding, before generating) rewrites a record that is queued or       *)
(* processing, writes status processing, and leaves every field but       *)
(* status and message as it was; while the worker stands at or before     *)
(* generate_vlog the job file never holds a terminal status, so no        *)
(* progress update follows a terminal write.                               *)
(***************************************************************************)
ProgressSites == {"u_loading", "u_decoding", "u_generating"}

StatusBeforeWrite(w) == IF w.pc = "u_loading" THEN "queued" ELSE "processing"

C25_OverlappingReadSeesOldOrNew ==
    [][\A id \in DOMAIN jobs :
        ((get_job_status(id) \/ get_job_result(id))
            /\ faults = 0 /\ worker[id].mid) =>
            jobs'[id]["status"] \in
                {StatusBeforeWrite(worker[id]), worker[id].job_data["status"]}
      ]_vars

(***************************************************************************)
(* C26  When the worker has exited and the job file holds completed with  *)
(* a video_path, the rendered file that path names still exists: the      *)
(* worker's temporary directory, which holds it, has not been removed.    *)
(* Stated of the runs in which no I/O call has failed.                    *)
(***************************************************************************)
C26_LocalArtifactSurvives ==
    \A id \in JobIds :
        (faults = 0 /\ Exited(id) /\ HasRecord(id)
            /\ Status(id) = "completed" /\ Populated(Record(id), "video_path")) =>
            tmpdir[id] = "rendered"

(***************************************************************************)
(* C27  A submission rejected because the worker could not be started     *)
(* (the worker script is missing, the images cannot be staged, or the     *)
(* process cannot be spawned) leaves, for every job whose worker was not  *)
(* launched, no queued entry in memory, no queued job file and no staged  *)
(* images file.                                                            *)
(***************************************************************************)
C27_RejectedLaunchLeavesNothing ==
    [][\A r \in Submissions :
        (r.out \in LaunchFailures /\ generate_auto_vlog(r.n, r.bad, r.t, r.out)) =>
            \A id \in Uuids :
                ~Returned(id)' =>
                    /\ ~(id \in DOMAIN jobs' /\ jobs'[id]["status"] = "queued")
                    /\ ~(HasRecord(id)' /\ Status(id)' = "queued")
                    /\ fs'[ImagesPath(id)].kind = "absent"
      ]_vars

(***************************************************************************)
(* C28  An update_job_status call sets status, message, the keyword       *)
(* fields it is given and, on completed, completed_at, and carries every  *)
(* other field of the record over as it was; what it writes is that whole *)
(* record; created_at in the job file is at all times the created_at the  *)
(* submitter stored.                                                       *)
(***************************************************************************)
GivenFields(args) ==
    {"status", "message"} \cup DOMAIN args.kwargs
        \cup (IF args.status = "completed" THEN {"completed_at"} ELSE {})

C28_UpdateKeepsOtherFields ==
    [][\A id \in JobIds :
        LET w == worker[id]
            v == worker'[id]
        IN  /\ (w.pc \in UpdateSites /\ ~w.mid /\ v.mid) =>
                  /\ HasRecord(id)
                  /\ DOMAIN v.job_data = DOMAIN Record(id) \cup GivenFields(UpdateArgs(w))
                  /\ \A k \in DOMAIN Record(id) \ GivenFields(UpdateArgs(w)) :
                        v.job_data[k] = Record(id)[k]
            /\ (w.mid /\ ~v.mid /\ HasRecord(id)') => Record(id)' = w.job_data
            /\ HasRecord(id)' =>
                  /\ id \in DOMAIN jobs'
                  /\ Record(id)'["created_at"] = jobs'[id]["created_at"]
                  /\ Record(id)'["created_at"] \in SubmitTimes
      ]_vars

\* A completed record that still carries the submitter's created_at next to
\* the worker's completed_at.
C28_Witness ==
    \E id \in JobIds :
        /\ HasRecord(id)
        /\ Status(id) = "completed"
        /\ Record(id)["created_at"] \in SubmitTimes
        /\ Record(id)["completed_at"] \in WorkerTimes
        /\ Populated(Record(id), "video_url")
        /\ Record(id)["message"] = "Video generated and uploaded to Cloudinary CDN"

(***************************************************************************)
(* C29  Over any sequence of get_voice_system calls, at most one call     *)
(* loads the model successfully, and every call that returns hands out a  *)
(* voice system whose model_loaded is true.                                *)
(***************************************************************************)
C29_VoiceModelLoadedOnce ==
    /\ Cardinality({i \in DOMAIN voice_log : voice_log[i].load = "ok"}) <= 1
    /\ \A i \in DOMAIN voice_log :
          voice_log[i].returned => voice_log[i].handle.model_loaded

(***************************************************************************)
(* C30  The ids of the stored items are pairwise distinct and all below   *)
(* next_id, next_id never decreases, and an item that joins the list gets *)
(* the id next_id had, so an id that was ever stored (deleted since or    *)
(* not) is never assigned again; update_item and delete_item on an id     *)
(* that is not stored return None or False and leave the item list and    *)
(* next_id unchanged.                                                      *)
(***************************************************************************)
StoredIds(list) == {list[i].id : i \in DOMAIN list}

C30_ItemIdsNeverReused ==
    [][/\ \A i, j \in DOMAIN items' : i # j => items'[i].id # items'[j].id
       /\ \A i \in DOMAIN items' : items'[i].id < next_id'
       /\ next_id' >= next_id
       /\ \A id \in StoredIds(items') \ StoredIds(items) :
             /\ id = next_id
             /\ next_id' = next_id + 1
       /\ \A item_id \in ItemIds \ StoredIds(items) :
             /\ (\E u \in ItemUpdates, now \in ItemTimes : update_item(item_id, u, now)) =>
                   /\ ~item_ret'.ok
                   /\ UNCHANGED <<items, next_id>>
             /\ delete_item(item_id) =>
                   /\ ~item_ret'.ok
                   /\ UNCHANGED <<items, next_id>>
      ]_vars

\* The first item was deleted and a later create got a fresh id, after which
\* a call on the deleted id has returned None or False.
C30_Witness ==
    /\ 1 \notin StoredIds(items)
    /\ Len(InitialItems) + 1 \in StoredIds(items)
    /\ item_ret.op \in {"update", "delete"}
    /\ ~item_ret.ok

====
